---- MODULE Spec2Model ----
(***************************************************************************)
(* A model of packify's serialization module: pack() and unpack() as pure  *)
(* operators over byte sequences, and a state machine that applies them.   *)
(*                                                                         *)
(* Bytes are integers 0..255 and a bytes object is a sequence of them.     *)
(* A Python value is a record of one shape,                                *)
(*   [k |-> kind, cls |-> class name, n |-> number, b |-> bytes/code       *)
(*    points, xs |-> children],                                            *)
(* so that any two values can be compared.  A raised exception is a result *)
(* record with ok = FALSE that carries the exception's class name.         *)
(***************************************************************************)
EXTENDS Integers, Sequences, FiniteSets, TLC

(***************************************************************************)
(* Bounds of the model.                                                    *)
(***************************************************************************)
\* the largest number of elements of a generated container
MaxLen == 2
\* the largest nesting depth of generated containers
MaxDepth == 2

(***************************************************************************)
(* Sequence helpers.                                                       *)
(***************************************************************************)
Take(s, n) == SubSeq(s, 1, n)

Drop(s, n) == SubSeq(s, n + 1, Len(s))

RECURSIVE Flatten(_)
\* b''.join(list of bytes)
Flatten(ss) == IF ss = <<>> THEN <<>> ELSE Head(ss) \o Flatten(Tail(ss))

RECURSIVE LexLess(_, _)
\* Python's ordering of bytes objects: lexicographic, a proper prefix first
LexLess(a, b) ==
    IF b = <<>> THEN FALSE
    ELSE IF a = <<>> THEN TRUE
    ELSE IF a[1] # b[1] THEN a[1] < b[1]
    ELSE LexLess(Tail(a), Tail(b))

RECURSIVE InsertSorted(_, _)
InsertSorted(x, s) ==
    IF s = <<>> THEN <<x>>
    ELSE IF LexLess(x, Head(s)) THEN <<x>> \o s
    ELSE <<Head(s)>> \o InsertSorted(x, Tail(s))

RECURSIVE sorted(_)
\* sorted(list of bytes): ascending, stable
sorted(ss) ==
    IF ss = <<>> THEN <<>>
    ELSE InsertSorted(ss[Len(ss)], sorted(Take(ss, Len(ss) - 1)))

(***************************************************************************)
(* Tag bytes (ASCII).                                                      *)
(***************************************************************************)
TagP == 112
TagL == 108
TagE == 101
TagT == 116
TagD == 100
TagB == 98
TagA == 97
TagS == 115
TagI == 105
TagBool == 66
TagF == 102
TagDec == 68
TagN == 110
Underscore == 95

KnownTags == {TagP, TagL, TagE, TagT, TagD, TagB, TagA, TagS, TagI, TagBool,
              TagF, TagDec, TagN}

(***************************************************************************)
(* Python values.                                                          *)
(***************************************************************************)
V(k, cls, n, b, xs) == [k |-> k, cls |-> cls, n |-> n, b |-> b, xs |-> xs]

NoneV == V("NoneType", <<>>, 0, <<>>, <<>>)

\* True is BoolV(1), False is BoolV(0)
BoolV(t) == V("bool", <<>>, t, <<>>, <<>>)

\* an int of any size: sign (1 = negative) and big-endian base-256 magnitude
\* without leading zeros (0 has the empty magnitude)
IntV(sign, mag) == V("int", <<>>, sign, mag, <<>>)

\* a float is its IEEE-754 double, most significant byte first
FloatV(bits) == V("float", <<>>, 0, bits, <<>>)

\* a str is its sequence of code points
StrV(cps) == V("str", <<>>, 0, cps, <<>>)

BytesV(b) == V("bytes", <<>>, 0, b, <<>>)

BytearrayV(b) == V("bytearray", <<>>, 0, b, <<>>)

\* a finite Decimal: sign, number of digits after the point, coefficient digits
DecimalV(sign, scale, digits) == V("Decimal", <<>>, sign, <<scale>> \o digits, <<>>)

ListV(xs) == V("list", <<>>, 0, <<>>, xs)

TupleV(xs) == V("tuple", <<>>, 0, <<>>, xs)

\* a set with its elements in iteration order
SetV(xs) == V("set", <<>>, 0, <<>>, xs)

\* a dict is its items() in iteration order, each a (key, value) tuple
DictV(pairs) == V("dict", <<>>, 0, <<>>, pairs)

\* a value of a kind pack does not know: a function object
FunctionV == V("function", <<>>, 0, <<>>, <<>>)

\* instances of user classes have kind "object" and cls, their __class__.__name__
\* as code points; the test suite's Packable implementations are two
\* "StrWrapper"
StrWrapperName == <<83, 116, 114, 87, 114, 97, 112, 112, 101, 114>>

\* "PackableMapEntry"
PackableMapEntryName == <<80, 97, 99, 107, 97, 98, 108, 101, 77, 97, 112, 69,
                          110, 116, 114, 121>>

StrWrapperV(cps) == V("object", StrWrapperName, 0, cps, <<>>)

PackableMapEntryV(key, value) == V("object", PackableMapEntryName, 0, <<>>, <<key, value>>)

(***************************************************************************)
(* Results: a returned value or bytes object, or a raised exception.       *)
(***************************************************************************)
Ok(x) == [ok |-> TRUE, val |-> x, err |-> "", msg |-> ""]

Raise(e, m) == [ok |-> FALSE, val |-> <<>>, err |-> e, msg |-> m]

\* errors.tressa(condition, message): raise UsageError(message) unless condition
tressa(condition, message, rest) ==
    IF condition THEN rest ELSE Raise("UsageError", message)

(***************************************************************************)
(* struct, UTF-8 and hex codecs.                                           *)
(***************************************************************************)
\* struct.pack('!I', n) for 0 <= n < 2^32
U32(n) == <<(n \div 16777216) % 256, (n \div 65536) % 256, (n \div 256) % 256, n % 256>>

\* struct.unpack('!I', b); a value of 2^30 or more stands for itself capped at
\* 2^30, which exceeds the length of every buffer of the model
ReadU32(b) ==
    IF b[1] >= 64 THEN 1073741824
    ELSE b[1] * 16777216 + b[2] * 65536 + b[3] * 256 + b[4]

\* struct.pack('!H', n) for 0 <= n < 2^16
U16(n) == <<(n \div 256) % 256, n % 256>>

ReadU16(b) == b[1] * 256 + b[2]

RECURSIVE StripZeros(_)
StripZeros(b) == IF b # <<>> /\ b[1] = 0 THEN StripZeros(Tail(b)) ELSE b

RECURSIVE Zeros(_)
Zeros(n) == IF n <= 0 THEN <<>> ELSE <<0>> \o Zeros(n - 1)

IsSurrogate(cp) == cp >= 55296 /\ cp <= 57343

\* the UTF-8 encoding of one code point
Utf8Char(cp) ==
    IF cp < 128 THEN <<cp>>
    ELSE IF cp < 2048 THEN <<192 + (cp \div 64), 128 + (cp % 64)>>
    ELSE IF cp < 65536 THEN <<224 + (cp \div 4096), 128 + ((cp \div 64) % 64), 128 + (cp % 64)>>
    ELSE <<240 + (cp \div 262144), 128 + ((cp \div 4096) % 64),
           128 + ((cp \div 64) % 64), 128 + (cp % 64)>>

RECURSIVE Utf8Bytes(_)
Utf8Bytes(cps) == IF cps = <<>> THEN <<>> ELSE Utf8Char(Head(cps)) \o Utf8Bytes(Tail(cps))

\* bytes(s, 'utf-8'): UnicodeEncodeError on a lone surrogate
Utf8Encode(cps) ==
    IF \E i \in 1..Len(cps) : IsSurrogate(cps[i])
    THEN Raise("UnicodeEncodeError", "")
    ELSE Ok(Utf8Bytes(cps))

IsCont(b, i) == i <= Len(b) /\ b[i] >= 128 /\ b[i] <= 191

\* the length of the well-formed UTF-8 sequence that starts b, or 0
Utf8SeqLen(b) ==
    IF b[1] < 128 THEN 1
    ELSE IF b[1] >= 194 /\ b[1] <= 223 /\ IsCont(b, 2) THEN 2
    ELSE IF b[1] >= 224 /\ b[1] <= 239 /\ IsCont(b, 2) /\ IsCont(b, 3)
            /\ (b[1] = 224 => b[2] >= 160) /\ (b[1] = 237 => b[2] <= 159) THEN 3
    ELSE IF b[1] >= 240 /\ b[1] <= 244 /\ IsCont(b, 2) /\ IsCont(b, 3) /\ IsCont(b, 4)
            /\ (b[1] = 240 => b[2] >= 144) /\ (b[1] = 244 => b[2] <= 143) THEN 4
    ELSE 0

Utf8CodePoint(b, n) ==
    IF n = 1 THEN b[1]
    ELSE IF n = 2 THEN (b[1] - 192) * 64 + (b[2] - 128)
    ELSE IF n = 3 THEN (b[1] - 224) * 4096 + (b[2] - 128) * 64 + (b[3] - 128)
    ELSE (b[1] - 240) * 262144 + (b[2] - 128) * 4096 + (b[3] - 128) * 64 + (b[4] - 128)

RECURSIVE Utf8Valid(_)
Utf8Valid(b) ==
    IF b = <<>> THEN TRUE
    ELSE Utf8SeqLen(b) > 0 /\ Utf8Valid(Drop(b, Utf8SeqLen(b)))

RECURSIVE Utf8CodePoints(_)
Utf8CodePoints(b) ==
    IF b = <<>> THEN <<>>
    ELSE <<Utf8CodePoint(b, Utf8SeqLen(b))>> \o Utf8CodePoints(Drop(b, Utf8SeqLen(b)))

\* str(b, 'utf-8'): UnicodeDecodeError on ill-formed input
Utf8Decode(b) ==
    IF Utf8Valid(b) THEN Ok(Utf8CodePoints(b)) ELSE Raise("UnicodeDecodeError", "")

\* one lowercase hex digit, as a code point
HexDigit(d) == IF d < 10 THEN 48 + d ELSE 87 + d

RECURSIVE Hex(_)
\* bytes.hex(), as code points
Hex(b) == IF b = <<>> THEN <<>> ELSE <<HexDigit(b[1] \div 16), HexDigit(b[1] % 16)>> \o Hex(Tail(b))

\* the value of a hex digit code point, or -1
HexVal(c) ==
    IF c >= 48 /\ c <= 57 THEN c - 48
    ELSE IF c >= 97 /\ c <= 102 THEN c - 87
    ELSE IF c >= 65 /\ c <= 70 THEN c - 55
    ELSE -1

\* ASCII whitespace, which bytes.fromhex skips between byte pairs
IsHexSpace(c) == c \in {32, 9, 10, 11, 12, 13}

RECURSIVE HexValid(_)
HexValid(s) ==
    IF s = <<>> THEN TRUE
    ELSE IF IsHexSpace(s[1]) THEN HexValid(Tail(s))
    ELSE Len(s) >= 2 /\ HexVal(s[1]) >= 0 /\ HexVal(s[2]) >= 0 /\ HexValid(Drop(s, 2))

RECURSIVE HexBytes(_)
HexBytes(s) ==
    IF s = <<>> THEN <<>>
    ELSE IF IsHexSpace(s[1]) THEN HexBytes(Tail(s))
    ELSE <<HexVal(s[1]) * 16 + HexVal(s[2])>> \o HexBytes(Drop(s, 2))

\* bytes.fromhex(s): ValueError on anything but pairs of hex digits
FromHex(s) == IF HexValid(s) THEN Ok(HexBytes(s)) ELSE Raise("ValueError", "")

(***************************************************************************)
(* Decimal <-> str, for finite Decimals in plain notation (no exponent):   *)
(* the strings str() gives for a Decimal with scale - len(digits) < 6.     *)
(***************************************************************************)
RECURSIVE AsciiDigits(_)
AsciiDigits(ds) == IF ds = <<>> THEN <<>> ELSE <<48 + Head(ds)>> \o AsciiDigits(Tail(ds))

\* str(Decimal): sign, integer part, and the fraction after a point
DecimalStr(d) ==
    LET scale == d.b[1]
        digits == Tail(d.b)
        left == Len(digits) - scale
        sign == IF d.n = 1 THEN <<45>> ELSE <<>>
        intpart == IF left <= 0 THEN <<48>> ELSE AsciiDigits(Take(digits, left))
        fracpart == IF scale = 0 THEN <<>>
                    ELSE IF left <= 0 THEN <<46>> \o AsciiDigits(Zeros(0 - left) \o digits)
                    ELSE <<46>> \o AsciiDigits(Drop(digits, left))
    IN  sign \o intpart \o fracpart

IsAsciiDigit(c) == c >= 48 /\ c <= 57

RECURSIVE DigitsOf(_)
DigitsOf(cs) == IF cs = <<>> THEN <<>> ELSE <<Head(cs) - 48>> \o DigitsOf(Tail(cs))

\* Decimal(s) for s = [+-] digits [. digits] with at least one digit
DecimalParse(s) ==
    LET signed == s # <<>> /\ s[1] \in {43, 45}
        body == IF signed THEN Tail(s) ELSE s
        dots == {i \in 1..Len(body) : body[i] = 46}
        dot == IF dots = {} THEN Len(body) + 1 ELSE CHOOSE i \in dots : \A j \in dots : i <= j
        intpart == Take(body, dot - 1)
        fracpart == Drop(body, dot)
        all == intpart \o fracpart
        coeff == StripZeros(DigitsOf(all))
    IN  IF Cardinality(dots) <= 1 /\ all # <<>>
           /\ \A i \in 1..Len(all) : IsAsciiDigit(all[i])
        THEN Ok(DecimalV(IF signed /\ s[1] = 45 THEN 1 ELSE 0, Len(fracpart),
                         IF coeff = <<>> THEN <<0>> ELSE coeff))
        ELSE Raise("InvalidOperation", "")

(***************************************************************************)
(* Python equality and hashing of values, as set() and dict use them.      *)
(***************************************************************************)
RECURSIVE Hashable(_)
Hashable(v) ==
    IF v.k \in {"list", "set", "dict", "bytearray"} THEN FALSE
    ELSE \A i \in 1..Len(v.xs) : Hashable(v.xs[i])

\* long division of a base-256 magnitude by 10: <<quotient, remainder>>
RECURSIVE DivMod10(_, _)
DivMod10(mag, carry) ==
    IF mag = <<>> THEN <<<<>>, carry>>
    ELSE LET cur == carry * 256 + mag[1]
             rest == DivMod10(Tail(mag), cur % 10)
         IN  <<<<cur \div 10>> \o rest[1], rest[2]>>

RECURSIVE DecDigits(_)
\* the decimal digits of a base-256 magnitude (none for 0)
DecDigits(mag) ==
    IF mag = <<>> THEN <<>>
    ELSE LET qr == DivMod10(mag, 0)
         IN  DecDigits(StripZeros(qr[1])) \o <<qr[2]>>

RECURSIVE StripTrailingZeros(_)
StripTrailingZeros(ds) ==
    IF ds # <<>> /\ ds[Len(ds)] = 0 THEN StripTrailingZeros(Take(ds, Len(ds) - 1)) ELSE ds

\* the number a bool, int or Decimal stands for: sign, integer digits, fraction digits
NumNorm(v) ==
    LET ds == IF v.k = "bool" THEN (IF v.n = 1 THEN <<1>> ELSE <<>>)
              ELSE IF v.k = "int" THEN DecDigits(v.b)
              ELSE Tail(v.b)
        scale == IF v.k = "Decimal" THEN v.b[1] ELSE 0
        padded == Zeros(scale - Len(ds)) \o ds
        ip == StripZeros(Take(padded, Len(padded) - scale))
        fp == StripTrailingZeros(Drop(padded, Len(padded) - scale))
    IN  [sign |-> IF ip = <<>> /\ fp = <<>> THEN 0 ELSE IF v.k = "bool" THEN 0 ELSE v.n,
         ip |-> ip, fp |-> fp]

\* a == b in Python, for hashable values.  Floats of the model compare by their
\* bits (the model's floats equal no int, bool or Decimal of the model).
RECURSIVE PyEq(_, _)
PyEq(a, b) ==
    IF a.k \in {"bool", "int", "Decimal"} /\ b.k \in {"bool", "int", "Decimal"}
    THEN NumNorm(a) = NumNorm(b)
    ELSE /\ a.k = b.k
         /\ a.cls = b.cls
         /\ a.n = b.n
         /\ a.b = b.b
         /\ Len(a.xs) = Len(b.xs)
         /\ \A i \in 1..Len(a.xs) : PyEq(a.xs[i], b.xs[i])

(***************************************************************************)
(* pack                                                                    *)
(***************************************************************************)
\* the built-in types pack accepts (serialization.py, the tuple in the guard)
SupportedTypes == {"dict", "list", "set", "tuple", "str", "bytes", "bytearray",
                   "int", "bool", "float", "Decimal"}

\* classes with a pack and an unpack method: the test suite's two
PackableClasses == {StrWrapperName, PackableMapEntryName}

\* isinstance(data, Packable): the runtime check of the protocol's two methods
IsPackable(data) == data.k = "object" /\ data.cls \in PackableClasses

\* Frame with the length written least significant byte first ('<I' for '!I')
Frame_littleEndian(code, payload) ==
    Ok(<<code>> \o <<Len(payload) % 256, (Len(payload) \div 256) % 256,
                     (Len(payload) \div 65536) % 256, (Len(payload) \div 16777216) % 256>>
              \o payload)

\* struct.pack(f'!1sI{len(payload)}s', code, len(payload), payload)
Frame(code, payload) == Ok(<<code>> \o U32(Len(payload)) \o payload)

\* hex of the class name, '_', then the instance's own bytes
ExtensionPayload(cls, own) == Hex(Utf8Bytes(cls)) \o <<Underscore>> \o own

\* StrWrapper.pack
StrWrapper_pack(self) == Utf8Encode(self.b)

RECURSIVE Packable_pack(_)
\* PackableMapEntry.pack: '!HH' lengths, then key and value, each the hex of
\* its class name, '_' and its own pack()
PackableMapEntry_pack(self) ==
    LET k == Packable_pack(self.xs[1])
        v == Packable_pack(self.xs[2])
        key == ExtensionPayload(self.xs[1].cls, k.val)
        value == ExtensionPayload(self.xs[2].cls, v.val)
    IN  IF ~k.ok THEN k
        ELSE IF ~v.ok THEN v
        ELSE IF Len(key) > 65535 \/ Len(value) > 65535 THEN Raise("struct.error", "")
        ELSE Ok(U16(Len(key)) \o U16(Len(value)) \o key \o value)

\* data.pack() of a Packable
Packable_pack(data) ==
    IF data.cls = StrWrapperName THEN StrWrapper_pack(data)
    ELSE IF data.cls = PackableMapEntryName THEN PackableMapEntry_pack(data)
    ELSE Raise("AttributeError", "")

\* the Packable branch
PackPackable(data) ==
    LET own == Packable_pack(data)
    IN  IF ~own.ok THEN own ELSE Frame(TagP, ExtensionPayload(data.cls, own.val))

\* the bytes and bytearray branch
PackBytes(data) == Frame(IF data.k = "bytes" THEN TagB ELSE TagA, data.b)

\* the str branch
PackStr(data) ==
    LET enc == Utf8Encode(data.b)
    IN  IF ~enc.ok THEN enc ELSE Frame(TagS, enc.val)

\* the int branch: struct.pack('!1sII', b'i', 4, data); format 'I' takes
\* 0 <= data <= 2^32 - 1 and raises struct.error otherwise
PackInt(data) ==
    IF data.n = 1 \/ Len(data.b) > 4 THEN Raise("struct.error", "")
    ELSE Ok(<<TagI>> \o U32(4) \o Zeros(4 - Len(data.b)) \o data.b)

\* the bool branch: struct.pack('!1sI?', b'B', 1, data)
PackBool(data) == Ok(<<TagBool>> \o U32(1) \o <<data.n>>)

\* the float branch: struct.pack('!1sId', b'f', 8, data)
PackFloat(data) == Ok(<<TagF>> \o U32(8) \o data.b)

\* the Decimal branch
PackDecimal(data) ==
    LET enc == Utf8Encode(DecimalStr(data))
    IN  IF ~enc.ok THEN enc ELSE Frame(TagDec, enc.val)

\* the None branch: struct.pack('!1sI', b'n', 0)
PackNone == Ok(<<TagN>> \o U32(0))

\* the code of a list, set or tuple
ContainerCode(k) == IF k = "list" THEN TagL ELSE IF k = "set" THEN TagE ELSE TagT

\* the first exception a list comprehension raises, going left to right
FirstFailure(rs) ==
    LET bad == {i \in 1..Len(rs) : ~rs[i].ok}
    IN  rs[CHOOSE i \in bad : \A j \in bad : i <= j]

AllOk(rs) == \A i \in 1..Len(rs) : rs[i].ok

Vals(rs) == [i \in 1..Len(rs) |-> rs[i].val]

\* the list, set and tuple branch: the element frames joined in iteration order
JoinItems(frames) == Flatten(frames)

\* JoinPairs without the call of sorted
JoinPairs_unsorted(frames) == Flatten(frames)

\* the dict branch: the pair frames sorted, then joined
JoinPairs(frames) == Flatten(sorted(frames))

RECURSIVE pack(_)
pack(data) ==
    IF ~(IsPackable(data) \/ data.k \in SupportedTypes \/ data.k = "NoneType")
    THEN Raise("UsageError", data.k)
    ELSE IF IsPackable(data) THEN PackPackable(data)
    ELSE IF data.k \in {"list", "set", "tuple"} THEN
        LET rs == [i \in 1..Len(data.xs) |-> pack(data.xs[i])]
        IN  IF ~AllOk(rs) THEN FirstFailure(rs)
            ELSE Frame(ContainerCode(data.k), JoinItems(Vals(rs)))
    ELSE IF data.k \in {"bytes", "bytearray"} THEN PackBytes(data)
    ELSE IF data.k = "str" THEN PackStr(data)
    ELSE IF data.k = "int" THEN PackInt(data)
    ELSE IF data.k = "bool" THEN PackBool(data)
    ELSE IF data.k = "float" THEN PackFloat(data)
    ELSE IF data.k = "Decimal" THEN PackDecimal(data)
    ELSE IF data.k = "dict" THEN
        LET rs == [i \in 1..Len(data.xs) |-> pack(data.xs[i])]
        IN  IF ~AllOk(rs) THEN FirstFailure(rs)
            ELSE Frame(TagD, JoinPairs(Vals(rs)))
    ELSE PackNone

(***************************************************************************)
(* The names unpack resolves extension classes in.  A name maps to what it *)
(* is bound to: one of the test suite's classes, the struct module, the    *)
(* Packable protocol class, or "plain" for an object without an unpack     *)
(* attribute.  inject is a function from names (code points) to these.     *)
(***************************************************************************)
\* "struct"
StructName == <<115, 116, 114, 117, 99, 116>>

\* "Decimal"
DecimalName == <<68, 101, 99, 105, 109, 97, 108>>

\* "Packable"
PackableName == <<80, 97, 99, 107, 97, 98, 108, 101>>

\* "pack"
PackName == <<112, 97, 99, 107>>

\* "unpack"
UnpackName == <<117, 110, 112, 97, 99, 107>>

\* "tressa"
TressaName == <<116, 114, 101, 115, 115, 97>>

\* "NoneType"
NoneTypeName == <<78, 111, 110, 101, 84, 121, 112, 101>>

\* "SerializableType"
SerializableTypeName == <<83, 101, 114, 105, 97, 108, 105, 122, 97, 98, 108, 101,
                          84, 121, 112, 101>>

\* "annotations"
AnnotationsName == <<97, 110, 110, 111, 116, 97, 116, 105, 111, 110, 115>>

\* "__name__", one of the names every module has; they are all bound to
\* objects without an unpack attribute
DunderNameName == <<95, 95, 110, 97, 109, 101, 95, 95>>

\* globals() of the serialization module: what its imports and defs bind
ModuleGlobals ==
    (StructName :> "struct") @@ (PackableName :> "Packable") @@
    (DecimalName :> "plain") @@ (PackName :> "plain") @@ (UnpackName :> "plain") @@
    (TressaName :> "plain") @@ (NoneTypeName :> "plain") @@
    (SerializableTypeName :> "plain") @@ (AnnotationsName :> "plain") @@
    (DunderNameName :> "plain")

\* globals() of the test modules, which PackableMapEntry.unpack merges
TestGlobals ==
    (StrWrapperName :> "StrWrapper") @@ (PackableMapEntryName :> "PackableMapEntry") @@
    (StructName :> "struct") @@ (PackableName :> "Packable") @@
    (DecimalName :> "plain") @@ (PackName :> "plain") @@ (UnpackName :> "plain")

\* {**globals, **inject}: inject wins
Merge(globals, inject) == inject @@ globals

\* hasattr(x, 'unpack')
HasUnpack(x) == x \in {"StrWrapper", "PackableMapEntry", "struct", "Packable"}

\* StrWrapper.unpack(data, inject=inject)
StrWrapper_unpack(data) ==
    LET s == Utf8Decode(data)
    IN  IF ~s.ok THEN s ELSE Ok(StrWrapperV(s.val))

\* Packable.unpack(data, inject=inject) called on the protocol class itself:
\* the protocol's method has no body and returns None
Protocol_unpack(data) == Ok(NoneV)

\* Partition at the last '_' (rpartition for partition)
Partition_last(b) ==
    LET at == {i \in 1..Len(b) : b[i] = Underscore}
        i == IF at = {} THEN Len(b) + 1 ELSE CHOOSE x \in at : \A y \in at : y <= x
    IN  <<Take(b, i - 1), Drop(b, i)>>

\* bytes.partition(b'_'): <<before, after>> of the first '_'
Partition(b) ==
    LET at == {i \in 1..Len(b) : b[i] = Underscore}
        i == IF at = {} THEN Len(b) + 1 ELSE CHOOSE x \in at : \A y \in at : x <= y
    IN  <<Take(b, i - 1), Drop(b, i)>>

\* str(bytes.fromhex(str(packed_class, 'utf-8')), 'utf-8')
ClassName(packed_class) ==
    LET s == Utf8Decode(packed_class)
        h == FromHex(s.val)
    IN  IF ~s.ok THEN s
        ELSE IF ~h.ok THEN h
        ELSE Utf8Decode(h.val)

RECURSIVE Call_unpack(_, _, _)
\* PackableMapEntry.unpack(data, inject=inject), one half: split at '_',
\* look the class up and call its unpack
MapEntryHalf(half, inject) ==
    LET at == {i \in 1..Len(half) : half[i] = Underscore}
        parts == Partition(half)
        name == ClassName(parts[1])
        deps == Merge(TestGlobals, inject)
    IN  IF at = {} THEN Raise("ValueError", "")
        ELSE IF ~name.ok THEN name
        ELSE IF name.val \notin DOMAIN deps THEN Raise("KeyError", "")
        ELSE IF ~HasUnpack(deps[name.val]) THEN Raise("AttributeError", "")
        ELSE Call_unpack(deps[name.val], parts[2], inject)

PackableMapEntry_unpack(data, inject) ==
    IF Len(data) < 4 THEN Raise("struct.error", "")
    ELSE LET key_len == ReadU16(data)
             value_len == ReadU16(Drop(data, 2))
             body == Drop(data, 4)
             key == MapEntryHalf(Take(body, key_len), inject)
             value == MapEntryHalf(Drop(body, key_len), inject)
         IN  IF key_len + value_len # Len(body) THEN Raise("struct.error", "")
             ELSE IF ~key.ok THEN key
             ELSE IF ~value.ok THEN value
             ELSE Ok(PackableMapEntryV(key.val, value.val))

\* x.unpack(data, inject=inject) for what a name is bound to
Call_unpack(x, data, inject) ==
    IF x = "StrWrapper" THEN StrWrapper_unpack(data)
    ELSE IF x = "PackableMapEntry" THEN PackableMapEntry_unpack(data, inject)
    ELSE IF x = "Packable" THEN Protocol_unpack(data)
    ELSE Raise("TypeError", "")

(***************************************************************************)
(* unpack                                                                  *)
(***************************************************************************)
\* the two struct.unpack lines that open most branches: a 4-byte length, then
\* that many bytes (anything after them is dropped); struct.error when fewer
\* than 4 bytes, or fewer bytes than the length, are there
ReadLengthPrefixed(data) ==
    IF Len(data) < 4 THEN Raise("struct.error", "")
    ELSE IF ReadU32(data) > Len(data) - 4 THEN Raise("struct.error", "")
    ELSE Ok(SubSeq(data, 5, 4 + ReadU32(data)))

\* the 'p' branch, after the code byte
UnpackPackable(data, inject) ==
    LET packed == ReadLengthPrefixed(data)
        parts == Partition(packed.val)
        packed_class == ClassName(parts[1])
        dependencies == Merge(ModuleGlobals, inject)
    IN  IF ~packed.ok THEN packed
        ELSE IF ~packed_class.ok THEN packed_class
        ELSE tressa(packed_class.val \in DOMAIN dependencies, "not found in globals or inject",
             tressa(HasUnpack(dependencies[packed_class.val]), "must have unpack method",
             Call_unpack(dependencies[packed_class.val], parts[2], inject)))

\* pair[i] for i in {0, 1}, as the dict comprehension evaluates it
Subscript(pair, i) ==
    IF pair.k \in {"list", "tuple"} THEN
        IF Len(pair.xs) > i THEN Ok(pair.xs[i + 1]) ELSE Raise("IndexError", "")
    ELSE IF pair.k = "str" THEN
        IF Len(pair.b) > i THEN Ok(StrV(<<pair.b[i + 1]>>)) ELSE Raise("IndexError", "")
    ELSE IF pair.k \in {"bytes", "bytearray"} THEN
        IF Len(pair.b) > i THEN Ok(IntV(0, StripZeros(<<pair.b[i + 1]>>)))
        ELSE Raise("IndexError", "")
    ELSE IF pair.k = "dict" THEN
        LET hit == {j \in 1..Len(pair.xs) :
                        PyEq(pair.xs[j].xs[1], IntV(0, StripZeros(<<i>>)))}
        IN  IF hit = {} THEN Raise("KeyError", "")
            ELSE Ok(pair.xs[CHOOSE j \in hit : TRUE].xs[2])
    ELSE Raise("TypeError", "")

RECURSIVE Dedupe(_)
\* set(items): one element of each class of equal elements, the first seen
Dedupe(items) ==
    IF items = <<>> THEN <<>>
    ELSE LET init == Dedupe(Take(items, Len(items) - 1))
             last == items[Len(items)]
         IN  IF \E i \in 1..Len(init) : PyEq(init[i], last) THEN init
             ELSE Append(init, last)

\* set(items): TypeError on an unhashable element
MakeSet(items) ==
    IF \E i \in 1..Len(items) : ~Hashable(items[i]) THEN Raise("TypeError", "")
    ELSE Ok(SetV(Dedupe(items)))

RECURSIVE DictItems(_)
\* the items() of {pair[0]: pair[1] for pair in items}, given the pairs:
\* a key seen again keeps its first key and place and takes the new value
DictItems(pairs) ==
    IF pairs = <<>> THEN <<>>
    ELSE LET init == DictItems(Take(pairs, Len(pairs) - 1))
             last == pairs[Len(pairs)]
             hit == {i \in 1..Len(init) : PyEq(init[i].xs[1], last.xs[1])}
         IN  IF hit = {} THEN Append(init, last)
             ELSE [i \in 1..Len(init) |->
                     IF i \in hit THEN TupleV(<<init[i].xs[1], last.xs[2]>>) ELSE init[i]]

\* the first exception of the dict comprehension, or none
PairFailure(pair) ==
    LET key == Subscript(pair, 0)
        value == Subscript(pair, 1)
    IN  IF ~key.ok THEN key
        ELSE IF ~value.ok THEN value
        ELSE IF ~Hashable(key.val) THEN Raise("TypeError", "")
        ELSE Ok(TupleV(<<key.val, value.val>>))

\* {pair[0]: pair[1] for pair in items}
MakeDict(items) ==
    LET rs == [i \in 1..Len(items) |-> PairFailure(items[i])]
    IN  IF ~AllOk(rs) THEN FirstFailure(rs) ELSE Ok(DictV(DictItems(Vals(rs))))

\* the 'b' and 'a' branch, after the code byte
UnpackBytes(code, data) ==
    LET bt_data == ReadLengthPrefixed(data)
    IN  IF ~bt_data.ok THEN bt_data
        ELSE Ok(IF code = TagB THEN BytesV(bt_data.val) ELSE BytearrayV(bt_data.val))

\* the 's' branch
UnpackStr(data) ==
    LET s == ReadLengthPrefixed(data)
        text == Utf8Decode(s.val)
    IN  IF ~s.ok THEN s
        ELSE IF ~text.ok THEN text
        ELSE Ok(StrV(text.val))

\* the 'i' branch: struct.unpack(f'!II{len(data)-8}s', data)[1]
UnpackInt(data) ==
    IF Len(data) < 8 THEN Raise("struct.error", "")
    ELSE Ok(IntV(0, StripZeros(SubSeq(data, 5, 8))))

\* the 'B' branch: struct.unpack('!I?', data)[1], a format of exactly 5 bytes
UnpackBool(data) ==
    IF Len(data) # 5 THEN Raise("struct.error", "")
    ELSE Ok(BoolV(IF data[5] # 0 THEN 1 ELSE 0))

\* the 'f' branch: struct.unpack(f'!Id{len(data)-12}s', data)[1]
UnpackFloat(data) ==
    IF Len(data) < 12 THEN Raise("struct.error", "")
    ELSE Ok(FloatV(SubSeq(data, 5, 12)))

\* the 'D' branch
UnpackDecimal(data) ==
    LET s == ReadLengthPrefixed(data)
        text == Utf8Decode(s.val)
    IN  IF ~s.ok THEN s
        ELSE IF ~text.ok THEN text
        ELSE DecimalParse(text.val)

\* the value of a call that reaches the end of unpack: no branch matched the
\* code, and the function returns None
FallThrough == Ok(NoneV)

\* SplitItem with the item's 5-byte header left in what remains
SplitItem_keepsHeader(let_data) ==
    IF Len(let_data) < 5 THEN Raise("struct.error", "")
    ELSE LET item_len == ReadU32(Tail(let_data))
         IN  IF 5 + item_len > Len(let_data) THEN Raise("struct.error", "")
             ELSE Ok(<<Take(let_data, 5 + item_len), Drop(let_data, item_len)>>)

\* one pass of the while loop's two struct.unpack lines: the next item's bytes
\* and what is left, or struct.error
SplitItem(let_data) ==
    IF Len(let_data) < 5 THEN Raise("struct.error", "")
    ELSE LET item_len == ReadU32(Tail(let_data))
         IN  IF 5 + item_len > Len(let_data) THEN Raise("struct.error", "")
             ELSE Ok(<<Take(let_data, 5 + item_len), Drop(let_data, 5 + item_len)>>)

\* MakeContainer with the 't' branch returning the list
MakeContainer_tupleAsList(code, items) ==
    IF code = TagL THEN Ok(ListV(items))
    ELSE IF code = TagE THEN MakeSet(items)
    ELSE IF code = TagT THEN Ok(ListV(items))
    ELSE MakeDict(items)

\* what the container branch returns for its code, given the items
MakeContainer(code, items) ==
    IF code = TagL THEN Ok(ListV(items))
    ELSE IF code = TagE THEN MakeSet(items)
    ELSE IF code = TagT THEN Ok(TupleV(items))
    ELSE MakeDict(items)

RECURSIVE unpack(_, _)
RECURSIVE UnpackItems(_, _)
RECURSIVE UnpackItems_defaultInject(_, _)
\* UnpackItems with unpack(item) for unpack(item, inject=inject): each item is
\* unpacked with the default inject, the empty dict
UnpackItems_defaultInject(let_data, inject) ==
    IF Len(let_data) = 0 THEN Ok(<<>>)
    ELSE LET split == SplitItem(let_data)
             item == unpack(split.val[1], [x \in {} |-> "plain"])
             more == UnpackItems_defaultInject(split.val[2], inject)
         IN  IF ~split.ok THEN split
             ELSE IF ~item.ok THEN item
             ELSE IF ~more.ok THEN more
             ELSE Ok(<<item.val>> \o more.val)

\* the while loop of the container branch: the items, or the first exception
UnpackItems(let_data, inject) ==
    IF Len(let_data) = 0 THEN Ok(<<>>)
    ELSE LET split == SplitItem(let_data)
             item == unpack(split.val[1], inject)
             more == UnpackItems(split.val[2], inject)
         IN  IF ~split.ok THEN split
             ELSE IF ~item.ok THEN item
             ELSE IF ~more.ok THEN more
             ELSE Ok(<<item.val>> \o more.val)

\* the container branch, after the code byte
UnpackContainer(code, data, inject) ==
    LET let_data == ReadLengthPrefixed(data)
        items == UnpackItems(let_data.val, inject)
    IN  IF ~let_data.ok THEN let_data
        ELSE IF ~items.ok THEN items
        ELSE MakeContainer(code, items.val)

unpack(data, inject) ==
    IF Len(data) < 1 THEN Raise("struct.error", "")
    ELSE LET code == data[1]
             rest == Tail(data)
         IN  IF code = TagP THEN UnpackPackable(rest, inject)
             ELSE IF code \in {TagL, TagE, TagT, TagD} THEN UnpackContainer(code, rest, inject)
             ELSE IF code \in {TagB, TagA} THEN UnpackBytes(code, rest)
             ELSE IF code = TagS THEN UnpackStr(rest)
             ELSE IF code = TagI THEN UnpackInt(rest)
             ELSE IF code = TagBool THEN UnpackBool(rest)
             ELSE IF code = TagF THEN UnpackFloat(rest)
             ELSE IF code = TagDec THEN UnpackDecimal(rest)
             ELSE IF code = TagN THEN Ok(NoneV)
             ELSE FallThrough

(***************************************************************************)
(* The values and registries the model applies pack and unpack to.         *)
(***************************************************************************)
\* sequences over S of at most n elements
SeqsUpTo(S, n) == UNION {[1..k -> S] : k \in 0..n}

\* no two elements equal: what a set, or the keys of a dict, can hold
Distinct(xs) == \A i, j \in 1..Len(xs) : i # j => ~PyEq(xs[i], xs[j])

IntMax32 == IntV(0, <<255, 255, 255, 255>>)

\* 1000000 and -1000000, the ends of the fuzz test's randint range
Million == IntV(0, <<15, 66, 64>>)

MinusMillion == IntV(1, <<15, 66, 64>>)

\* the ints of the model; the negative ones are those the fuzz test draws
Ints == {IntV(0, <<>>), IntV(0, <<1>>), IntV(0, <<8>>), Million, IntMax32,
         IntV(1, <<1>>), MinusMillion}

\* scalars, after the vectors of the test suite
Scalars ==
    {NoneV, BoolV(0), BoolV(1),
     FloatV(<<192, 2, 0, 0, 0, 0, 0, 0>>),
     StrV(<<>>), StrV(<<97>>), StrV(<<233, 95>>),
     BytesV(<<>>), BytesV(<<0, 255>>), BytearrayV(<<97>>),
     DecimalV(0, 3, <<1, 2, 3, 4, 5, 6>>), DecimalV(1, 2, <<5>>)} \cup Ints

\* Packable instances, after the test suite's
Packables ==
    {StrWrapperV(<<107>>), StrWrapperV(<<>>),
     PackableMapEntryV(StrWrapperV(<<97, 95>>), StrWrapperV(<<>>))}

Leaves == Scalars \cup Packables \cup {FunctionV}

\* the elements the generated containers are filled from
Pool == {NoneV, IntV(0, <<>>), IntV(0, <<8>>), IntV(1, <<1>>), StrWrapperV(<<107>>),
         FunctionV}

KeyPool == {IntV(0, <<1>>), StrV(<<97>>), StrWrapperV(<<107>>)}

ValuePool == {IntV(0, <<8>>), ListV(<<StrV(<<97>>)>>), FunctionV}

Pairs == {TupleV(<<k, v>>) : k \in KeyPool, v \in ValuePool}

Lists == {ListV(xs) : xs \in SeqsUpTo(Pool, MaxLen)}

Tuples == {TupleV(xs) : xs \in SeqsUpTo(Pool, MaxLen)}

Sets == {SetV(xs) : xs \in {ys \in SeqsUpTo(Pool, MaxLen) : Distinct(ys)}}

Dicts == {DictV(ps) : ps \in {qs \in SeqsUpTo(Pairs, MaxLen) :
                                Distinct([i \in 1..Len(qs) |-> qs[i].xs[1]])}}

\* one more level of nesting around x, in each kind of container
Wrap(x) ==
    {ListV(<<x>>), TupleV(<<NoneV, x>>), DictV(<<TupleV(<<StrV(<<97>>), x>>)>>)}
    \cup (IF Hashable(x) THEN {SetV(<<x>>), DictV(<<TupleV(<<TupleV(<<x>>), BoolV(1)>>)>>)}
          ELSE {})

DeepBase ==
    {IntV(0, <<1>>), IntV(1, <<1>>), FunctionV, StrWrapperV(<<107>>),
     PackableMapEntryV(StrWrapperV(<<107>>), StrWrapperV(<<>>)),
     DictV(<<TupleV(<<IntV(0, <<8>>), NoneV>>), TupleV(<<IntV(0, <<>>), NoneV>>)>>),
     SetV(<<IntV(0, <<8>>), IntV(0, <<>>)>>)}

RECURSIVE Deep(_)
\* values nested exactly d containers deep around a base value
Deep(d) == IF d = 0 THEN DeepBase ELSE UNION {Wrap(x) : x \in Deep(d - 1)}

\* every value the model hands to pack
Values == Leaves \cup Lists \cup Tuples \cup Sets \cup Dicts
          \cup UNION {Deep(d) : d \in 1..MaxDepth}

\* the empty function: no inject
NoInject == [x \in {} |-> "plain"]

\* the inject dicts of the test suite, and two that bind a class name to an
\* object that has no unpack
FullInject == (StrWrapperName :> "StrWrapper") @@ (PackableMapEntryName :> "PackableMapEntry")

Injects ==
    {NoInject,
     (StrWrapperName :> "StrWrapper"),
     (PackableMapEntryName :> "PackableMapEntry"),
     FullInject,
     (StrWrapperName :> "plain") @@ (PackableMapEntryName :> "plain"),
     (StrWrapperName :> "plain") @@ (PackableMapEntryName :> "PackableMapEntry")}

\* the values whose frames the model also damages on the way to unpack
WirePool == {BoolV(1), IntV(0, <<8>>)}

WirePairs == {TupleV(<<k, v>>) : k \in {StrV(<<97>>), IntV(0, <<8>>)}, v \in WirePool}

WireValues ==
    Leaves
    \cup {ListV(xs) : xs \in SeqsUpTo(WirePool, MaxLen)}
    \cup {TupleV(xs) : xs \in SeqsUpTo(WirePool, MaxLen)}
    \cup {SetV(xs) : xs \in {ys \in SeqsUpTo(WirePool, MaxLen) : Distinct(ys)}}
    \cup {DictV(ps) : ps \in {qs \in SeqsUpTo(WirePairs, MaxLen) :
                                Distinct([i \in 1..Len(qs) |-> qs[i].xs[1]])}}
    \cup {x \in Deep(MaxDepth) : x.k \in {"list", "dict"}}

\* the values whose frame is appended to another frame
Followers == {NoneV, IntV(0, <<8>>), ListV(<<BoolV(1)>>)}

\* code bytes that are none of the thirteen: NUL, 'L', 'x', 0xff
UnknownCodes == {0, 76, 120, 255}

\* "Point", a class name bound nowhere
PointName == <<80, 111, 105, 110, 116>>

\* a 'p' frame for a class name and the instance's own bytes
ExtensionFrame(name, own) ==
    <<TagP>> \o U32(Len(ExtensionPayload(name, own))) \o ExtensionPayload(name, own)

\* byte strings that reach unpack from elsewhere than pack
RawInputs ==
    {ExtensionFrame(n, <<107>>) :
        n \in {PointName, StructName, DecimalName, UnpackName,
               StrWrapperName, PackableMapEntryName}}
    \cup {<<>>, <<TagN>>, <<120>>, <<120, 0, 0, 0, 0>>, <<120, 0, 0, 0, 1, 7>>,
          <<TagI, 0, 0, 0, 99, 0, 0, 0, 7>>, <<TagBool, 0, 0, 0, 9, 1>>,
          <<TagN, 0, 0, 0, 5>>, <<TagS, 0, 0, 0, 2, 97>>,
          <<TagP, 0, 0, 0, 3, 122, 122, 95>>}

(***************************************************************************)
(* The state machine: a value is packed, and the bytes are unpacked;       *)
(* between the two the bytes may be cut, extended or altered.              *)
(***************************************************************************)
VARIABLES
    value,      \* the argument of pack
    packed,     \* what pack(value) returned or raised
    buf,        \* the bytes handed to unpack
    how,        \* how buf came about: "packed", "prefix", "concat", "retag",
                \* "shorter", "longer" or "raw"
    follower,   \* the value whose frame was appended to buf, if one was
    inject,     \* the inject argument of unpack
    unpacked,   \* what unpack(buf, inject) returned or raised
    pc,         \* "start", "packing", "packed", "raised", "unpacking" or
                \* "unpacked"
    pstack,     \* the calls of pack in progress, the outermost first
    ustack,     \* the calls of unpack in progress, the outermost first
    steps,      \* the steps the calls in progress have taken
    module_globals,  \* globals() of the serialization module
    calls       \* the concurrent callers: each one's argument, bytes, calls of
                \* unpack in progress and result

vars ==
    <<value, packed, buf, how, follower, inject, unpacked, pc, pstack, ustack, steps,
      module_globals, calls>>

NoResult == Raise("", "")

Init ==
    /\ value \in Values
    /\ packed = NoResult
    /\ buf = <<>>
    /\ how = "none"
    /\ follower = NoneV
    /\ inject = NoInject
    /\ unpacked = NoResult
    /\ pc = "start"
    /\ pstack = <<>>
    /\ ustack = <<>>
    /\ steps = 0
    /\ module_globals = ModuleGlobals
    /\ calls = <<>>

\* packed = pack(value)
Pack ==
    /\ pc = "start"
    /\ packed' = pack(value)
    /\ buf' = IF packed'.ok THEN packed'.val ELSE <<>>
    /\ how' = IF packed'.ok THEN "packed" ELSE "none"
    /\ pc' = IF packed'.ok THEN "packed" ELSE "raised"
    /\ UNCHANGED <<value, follower, inject, unpacked, pstack, ustack, steps,
                 module_globals, calls>>

\* unpacked = unpack(buf, inject=inj)
Unpack ==
    /\ pc = "packed"
    /\ \E inj \in Injects :
        /\ inject' = inj
        /\ unpacked' = unpack(buf, inj)
    /\ pc' = "unpacked"
    /\ UNCHANGED <<value, packed, buf, how, follower, pstack, ustack, steps,
                 module_globals, calls>>

Next == Pack \/ Unpack

Spec == Init /\ [][Next]_vars

(***************************************************************************)
(* The same machine with the bytes damaged in flight, and with byte        *)
(* strings that do not come from pack.                                     *)
(***************************************************************************)
InitWire ==
    /\ packed = NoResult
    /\ follower = NoneV
    /\ inject = NoInject
    /\ unpacked = NoResult
    /\ pstack = <<>>
    /\ ustack = <<>>
    /\ steps = 0
    /\ module_globals = ModuleGlobals
    /\ calls = <<>>
    /\ \/ /\ value \in WireValues
          /\ buf = <<>>
          /\ how = "none"
          /\ pc = "start"
       \/ /\ value = NoneV
          /\ buf \in RawInputs
          /\ how = "raw"
          /\ pc = "packed"

\* a proper prefix of the frame arrives
Truncate ==
    /\ pc = "packed" /\ how = "packed"
    /\ \E n \in 0..(Len(buf) - 1) : buf' = Take(buf, n)
    /\ how' = "prefix"
    /\ UNCHANGED <<value, packed, follower, inject, unpacked, pc, pstack, ustack, steps,
                 module_globals, calls>>

\* another frame follows the frame
Concat ==
    /\ pc = "packed" /\ how = "packed"
    /\ \E w \in Followers :
        /\ follower' = w
        /\ buf' = buf \o pack(w).val
    /\ how' = "concat"
    /\ UNCHANGED <<value, packed, inject, unpacked, pc, pstack, ustack, steps,
                 module_globals, calls>>

\* the code byte is replaced by a byte that is no code
Retag ==
    /\ pc = "packed" /\ how = "packed"
    /\ \E c \in UnknownCodes : buf' = <<c>> \o Tail(buf)
    /\ how' = "retag"
    /\ UNCHANGED <<value, packed, follower, inject, unpacked, pc, pstack, ustack, steps,
                 module_globals, calls>>

\* the declared length is one less than the payload's length
Shorten ==
    /\ pc = "packed" /\ how = "packed"
    /\ Len(buf) > 5
    /\ buf' = <<buf[1]>> \o U32(Len(buf) - 6) \o Drop(buf, 5)
    /\ how' = "shorter"
    /\ UNCHANGED <<value, packed, follower, inject, unpacked, pc, pstack, ustack, steps,
                 module_globals, calls>>

\* the declared length is one more than the payload's length
Lengthen ==
    /\ pc = "packed" /\ how = "packed"
    /\ buf' = <<buf[1]>> \o U32(Len(buf) - 4) \o Drop(buf, 5)
    /\ how' = "longer"
    /\ UNCHANGED <<value, packed, follower, inject, unpacked, pc, pstack, ustack, steps,
                 module_globals, calls>>

NextWire == Pack \/ Unpack \/ Truncate \/ Concat \/ Retag \/ Shorten \/ Lengthen

SpecWire == InitWire /\ [][NextWire]_vars

(***************************************************************************)
(* The same calls taken one step at a time: each call of pack and of       *)
(* unpack in progress is an entry of a stack, a recursive call pushes an   *)
(* entry, a return pops one and an exception unwinds them all.             *)
(***************************************************************************)
\* the values packed step by step: leaves, containers of two elements and
\* lists around nested containers; pack raises on some of them
RunValues ==
    {IntV(0, <<1>>), IntV(1, <<1>>), FunctionV, StrWrapperV(<<107>>),
     ListV(<<IntV(0, <<8>>), NoneV>>), TupleV(<<IntV(1, <<1>>), NoneV>>),
     SetV(<<IntV(0, <<8>>), IntV(0, <<>>)>>),
     DictV(<<TupleV(<<IntV(0, <<8>>), NoneV>>), TupleV(<<IntV(0, <<>>), NoneV>>)>>)}
    \cup {x \in Deep(MaxDepth) : x.k = "list"}

\* the inject of a stepwise call
RunInjects == {NoInject, FullInject}

\* byte strings that do not come from pack: [[[]]], an item length of 2^32-1,
\* a dict of an item that is no pair, an unknown code inside a list, an item
\* header cut short
RunInputs ==
    {<<>>, <<TagN>>, <<120>>,
     <<TagL, 0, 0, 0, 10, TagL, 0, 0, 0, 5, TagL, 0, 0, 0, 0>>,
     <<TagL, 0, 0, 0, 5, TagL, 255, 255, 255, 255>>,
     <<TagD, 0, 0, 0, 5, TagN, 0, 0, 0, 0>>,
     <<TagL, 0, 0, 0, 6, 120, 0, 0, 0, 1, 7>>,
     <<TagT, 0, 0, 0, 8, TagN, 0, 0, 0, 0, TagI, 0, 0>>,
     ExtensionFrame(PointName, <<107>>)}

InitRun ==
    /\ packed = NoResult
    /\ follower = NoneV
    /\ inject = NoInject
    /\ unpacked = NoResult
    /\ pstack = <<>>
    /\ ustack = <<>>
    /\ steps = 0
    /\ module_globals = ModuleGlobals
    /\ calls = <<>>
    /\ \/ /\ value \in RunValues
          /\ buf = <<>>
          /\ how = "none"
          /\ pc = "start"
       \/ /\ value = NoneV
          /\ buf \in RunInputs
          /\ how = "raw"
          /\ pc = "packed"

IsContainer(v) == v.k \in {"list", "set", "tuple", "dict"}

\* a call of pack: its argument and the frames of the elements packed so far
PackCall(data) == [data |-> data, frames |-> <<>>]

\* a call of unpack: its input, and in the container branch the payload still
\* to split and the items so far
UnpackCall(data) == [data |-> data, let_data |-> <<>>, items |-> <<>>, at |-> "entry"]

\* pack(value) is called
PackBegin ==
    /\ pc = "start"
    /\ pstack' = <<PackCall(value)>>
    /\ pc' = "packing"
    /\ UNCHANGED <<value, packed, buf, how, follower, inject, unpacked, ustack, steps,
                 module_globals, calls>>

\* the comprehension of the container branches calls pack on the next element
PackDescend ==
    /\ pc = "packing"
    /\ LET top == pstack[Len(pstack)]
       IN  /\ IsContainer(top.data)
           /\ Len(top.frames) < Len(top.data.xs)
           /\ pstack' = Append(pstack, PackCall(top.data.xs[Len(top.frames) + 1]))
    /\ steps' = steps + 1
    /\ UNCHANGED <<value, packed, buf, how, follower, inject, unpacked, pc, ustack,
                 module_globals, calls>>

\* what the innermost call returns or raises, its elements packed
PackResult(top) ==
    IF ~IsContainer(top.data) THEN pack(top.data)
    ELSE IF top.data.k = "dict" THEN Frame(TagD, JoinPairs(top.frames))
    ELSE Frame(ContainerCode(top.data.k), JoinItems(top.frames))

\* the innermost call of pack returns to its caller, or raises and unwinds
PackReturn ==
    /\ pc = "packing"
    /\ LET n == Len(pstack)
           top == pstack[n]
           r == PackResult(top)
       IN  /\ IsContainer(top.data) => Len(top.frames) = Len(top.data.xs)
           /\ IF ~r.ok THEN
                  /\ pstack' = <<>>
                  /\ packed' = r
                  /\ pc' = "raised"
                  /\ UNCHANGED <<buf, how>>
              ELSE IF n = 1 THEN
                  /\ pstack' = <<>>
                  /\ packed' = r
                  /\ buf' = r.val
                  /\ how' = "packed"
                  /\ pc' = "packed"
              ELSE
                  /\ pstack' = [SubSeq(pstack, 1, n - 1) EXCEPT
                                   ![n - 1].frames = Append(@, r.val)]
                  /\ UNCHANGED <<packed, buf, how, pc>>
    /\ steps' = steps + 1
    /\ UNCHANGED <<value, follower, inject, unpacked, ustack,
                 module_globals, calls>>

\* unpack(buf, inject=inj) is called
UnpackBegin ==
    /\ pc = "packed"
    /\ \E inj \in RunInjects : inject' = inj
    /\ ustack' = <<UnpackCall(buf)>>
    /\ pc' = "unpacking"
    /\ UNCHANGED <<value, packed, buf, how, follower, unpacked, pstack, steps,
                 module_globals, calls>>

\* the innermost call of unpack ends with r: an exception unwinds every call,
\* a value goes to the caller's items
Deliver(r) ==
    LET n == Len(ustack)
    IN  IF ~r.ok \/ n = 1 THEN
            /\ ustack' = <<>>
            /\ unpacked' = r
            /\ pc' = "unpacked"
        ELSE
            /\ ustack' = [SubSeq(ustack, 1, n - 1) EXCEPT ![n - 1].items = Append(@, r.val)]
            /\ UNCHANGED <<unpacked, pc>>

\* the code of a call's input is one of the four container codes
AtContainer(call) == Len(call.data) >= 1 /\ call.data[1] \in {TagL, TagE, TagT, TagD}

\* the container branch reads the length and the payload
UnpackEnter ==
    /\ pc = "unpacking"
    /\ LET n == Len(ustack)
           top == ustack[n]
           let_data == ReadLengthPrefixed(Tail(top.data))
       IN  /\ top.at = "entry"
           /\ AtContainer(top)
           /\ IF ~let_data.ok THEN Deliver(let_data)
              ELSE /\ ustack' = [ustack EXCEPT ![n].let_data = let_data.val, ![n].at = "loop"]
                   /\ UNCHANGED <<unpacked, pc>>
    /\ steps' = steps + 1
    /\ UNCHANGED <<value, packed, buf, how, follower, inject, pstack,
                 module_globals, calls>>

\* every other branch returns or raises without a call of unpack
UnpackLeaf ==
    /\ pc = "unpacking"
    /\ LET top == ustack[Len(ustack)]
       IN  /\ top.at = "entry"
           /\ ~AtContainer(top)
           /\ Deliver(unpack(top.data, inject))
    /\ steps' = steps + 1
    /\ UNCHANGED <<value, packed, buf, how, follower, inject, pstack,
                 module_globals, calls>>

\* one pass of the while loop: the next item is split off and unpack is
\* called on it
UnpackIterate ==
    /\ pc = "unpacking"
    /\ LET n == Len(ustack)
           top == ustack[n]
           split == SplitItem(top.let_data)
       IN  /\ top.at = "loop"
           /\ Len(top.let_data) > 0
           /\ IF ~split.ok THEN Deliver(split)
              ELSE /\ ustack' = Append([ustack EXCEPT ![n].let_data = split.val[2]],
                                       UnpackCall(split.val[1]))
                   /\ UNCHANGED <<unpacked, pc>>
    /\ steps' = steps + 1
    /\ UNCHANGED <<value, packed, buf, how, follower, inject, pstack,
                 module_globals, calls>>

\* the loop is over: the container is built from the items and returned
UnpackFinish ==
    /\ pc = "unpacking"
    /\ LET top == ustack[Len(ustack)]
       IN  /\ top.at = "loop"
           /\ Len(top.let_data) = 0
           /\ Deliver(MakeContainer(top.data[1], top.items))
    /\ steps' = steps + 1
    /\ UNCHANGED <<value, packed, buf, how, follower, inject, pstack,
                 module_globals, calls>>

\* a call in progress takes a step: each of PackDescend, PackReturn,
\* UnpackEnter, UnpackLeaf, UnpackIterate and UnpackFinish is one, and nothing
\* else counts one
RunStep ==
    /\ pc \in {"packing", "unpacking"}
    /\ steps' = steps + 1

NextRun ==
    \/ PackBegin \/ PackDescend \/ PackReturn
    \/ Truncate \/ Concat \/ Retag \/ Shorten \/ Lengthen
    \/ UnpackBegin \/ UnpackEnter \/ UnpackLeaf \/ UnpackIterate \/ UnpackFinish

\* a call in progress takes its next step: nothing else runs and nothing
\* blocks it
SpecRun == InitRun /\ [][NextRun]_vars /\ WF_steps(RunStep)

(***************************************************************************)
(* Several callers at once: each packs its own value and unpacks the bytes *)
(* one statement at a time, all of them with the one inject dict and in    *)
(* the one module.                                                         *)
(***************************************************************************)
MaxCalls == 2

Callers == 1..MaxCalls

\* what the callers pack: instances alone, in a list and as a dict's key and
\* value
SharedValues ==
    {StrWrapperV(<<107>>),
     ListV(<<StrWrapperV(<<107>>), IntV(0, <<8>>)>>),
     DictV(<<TupleV(<<StrWrapperV(<<107>>),
                      PackableMapEntryV(StrWrapperV(<<107>>), StrWrapperV(<<>>))>>)>>)}

\* the inject the callers share
SharedInjects ==
    {NoInject, FullInject,
     (StrWrapperName :> "plain") @@ (PackableMapEntryName :> "PackableMapEntry")}

\* a caller before its call of pack
Caller(data) == [data |-> data, buf |-> <<>>, stack |-> <<>>, result |-> NoResult, pc |-> "start"]

InitShared ==
    /\ value = NoneV
    /\ packed = NoResult
    /\ buf = <<>>
    /\ how = "none"
    /\ follower = NoneV
    /\ inject \in SharedInjects
    /\ unpacked = NoResult
    /\ pc = "start"
    /\ pstack = <<>>
    /\ ustack = <<>>
    /\ steps = 0
    /\ module_globals = ModuleGlobals
    /\ calls \in [Callers -> {Caller(v) : v \in SharedValues}]

\* BuildLookup with the names of inject written into the module's own dict
\* (dependencies = globals(); dependencies.update(inject))
BuildLookup_inPlace(globals, inj) ==
    [dependencies |-> Merge(globals, inj), globals |-> Merge(globals, inj), inject |-> inj]

\* dependencies = {**globals(), **inject}: a new dict; the module's dict and
\* inject are left as they are
BuildLookup(globals, inj) ==
    [dependencies |-> Merge(globals, inj), globals |-> globals, inject |-> inj]

\* the 'p' branch with the dependencies of the call
UnpackPackableIn(data, dependencies, inj) ==
    LET p == ReadLengthPrefixed(data)
        parts == Partition(p.val)
        packed_class == ClassName(parts[1])
    IN  IF ~p.ok THEN p
        ELSE IF ~packed_class.ok THEN packed_class
        ELSE tressa(packed_class.val \in DOMAIN dependencies, "not found in globals or inject",
             tressa(HasUnpack(dependencies[packed_class.val]), "must have unpack method",
             Call_unpack(dependencies[packed_class.val], parts[2], inj)))

\* what a call that is not in the container branch returns or raises
LeafResult(data, dependencies, inj) ==
    IF Len(data) >= 1 /\ data[1] = TagP THEN UnpackPackableIn(Tail(data), dependencies, inj)
    ELSE unpack(data, inj)

\* the innermost call of a stack ends with r
Returned(stack, r) ==
    LET n == Len(stack)
    IN  IF ~r.ok \/ n = 1 THEN [stack |-> <<>>, result |-> r, pc |-> "done"]
        ELSE [stack |-> [SubSeq(stack, 1, n - 1) EXCEPT ![n - 1].items = Append(@, r.val)],
              result |-> NoResult, pc |-> "unpacking"]

\* the next statement of the innermost call of a stack: the entry with the
\* dependencies just built, a pass of the loop, or the return
Advance(stack, dependencies, inj) ==
    LET n == Len(stack)
        top == stack[n]
        let_data == ReadLengthPrefixed(Tail(top.data))
        split == SplitItem(top.let_data)
    IN  IF top.at = "entry" THEN
            IF ~AtContainer(top) THEN Returned(stack, LeafResult(top.data, dependencies, inj))
            ELSE IF ~let_data.ok THEN Returned(stack, let_data)
            ELSE [stack |-> [stack EXCEPT ![n].let_data = let_data.val, ![n].at = "loop"],
                  result |-> NoResult, pc |-> "unpacking"]
        ELSE IF Len(top.let_data) = 0 THEN
            Returned(stack, MakeContainer(top.data[1], top.items))
        ELSE IF ~split.ok THEN Returned(stack, split)
        ELSE [stack |-> Append([stack EXCEPT ![n].let_data = split.val[2]],
                               UnpackCall(split.val[1])),
              result |-> NoResult, pc |-> "unpacking"]

\* a caller after a statement of its innermost call
Stepped(caller, next) ==
    [caller EXCEPT !.stack = next.stack, !.result = next.result, !.pc = next.pc]

\* caller t packs its value
SharedPack(t) ==
    /\ calls[t].pc = "start"
    /\ calls' = [calls EXCEPT ![t].buf = pack(calls[t].data).val, ![t].pc = "packed"]
    /\ UNCHANGED <<value, packed, buf, how, follower, inject, unpacked, pc, pstack, ustack,
                   steps, module_globals>>

\* caller t calls unpack on its bytes with the shared inject
SharedCall(t) ==
    /\ calls[t].pc = "packed"
    /\ calls' = [calls EXCEPT ![t].stack = <<UnpackCall(calls[t].buf)>>, ![t].pc = "unpacking"]
    /\ UNCHANGED <<value, packed, buf, how, follower, inject, unpacked, pc, pstack, ustack,
                   steps, module_globals>>

\* the innermost call of caller t runs its next statement; at its entry it
\* builds its dependencies from the module's globals and inject as they are now
SharedStep(t) ==
    /\ calls[t].pc = "unpacking"
    /\ LET stack == calls[t].stack
           entering == stack[Len(stack)].at = "entry"
           lookup == BuildLookup(module_globals, inject)
       IN  /\ calls' = [calls EXCEPT
                           ![t] = Stepped(@, Advance(stack, lookup.dependencies, inject))]
           /\ module_globals' = IF entering THEN lookup.globals ELSE module_globals
           /\ inject' = IF entering THEN lookup.inject ELSE inject
    /\ UNCHANGED <<value, packed, buf, how, follower, unpacked, pc, pstack, ustack, steps>>

NextShared == \E t \in Callers : SharedPack(t) \/ SharedCall(t) \/ SharedStep(t)

SpecShared == InitShared /\ [][NextShared]_vars

(***************************************************************************)
(* Vocabulary of the properties.                                           *)
(***************************************************************************)
\* equal, and of the same kind at every level; a set and a dict in any order
RECURSIVE SameValue(_, _)
SameValue(a, b) ==
    /\ a.k = b.k
    /\ a.cls = b.cls
    /\ a.n = b.n
    /\ a.b = b.b
    /\ Len(a.xs) = Len(b.xs)
    /\ IF a.k \in {"set", "dict"}
       THEN /\ \A i \in 1..Len(a.xs) : \E j \in 1..Len(b.xs) : SameValue(a.xs[i], b.xs[j])
            /\ \A j \in 1..Len(b.xs) : \E i \in 1..Len(a.xs) : SameValue(a.xs[i], b.xs[j])
       ELSE \A i \in 1..Len(a.xs) : SameValue(a.xs[i], b.xs[i])

\* the same outcome: the same bytes, or the same exception
SameResult(r, q) == r.ok = q.ok /\ (IF r.ok THEN r.val = q.val ELSE r.err = q.err)

RECURSIVE Kinds(_)
\* the kinds of v and of everything in it
Kinds(v) == {v.k} \cup UNION {Kinds(v.xs[i]) : i \in 1..Len(v.xs)}

RECURSIVE Classes(_)
\* the class names of the instances in v
Classes(v) ==
    (IF v.k = "object" THEN {v.cls} ELSE {}) \cup UNION {Classes(v.xs[i]) : i \in 1..Len(v.xs)}

RECURSIVE IntsIn(_)
IntsIn(v) == (IF v.k = "int" THEN {v} ELSE {}) \cup UNION {IntsIn(v.xs[i]) : i \in 1..Len(v.xs)}

RECURSIVE Depth(_)
\* how many containers deep v nests
Depth(v) ==
    IF v.k \notin {"list", "tuple", "set", "dict"} THEN 0
    ELSE LET ds == {Depth(v.xs[i]) : i \in 1..Len(v.xs)} \cup {0}
         IN  1 + (CHOOSE d \in ds : \A e \in ds : e <= d)

\* what a class name must be bound to for its instances to come back
ClassOf(name) == IF name = StrWrapperName THEN "StrWrapper" ELSE "PackableMapEntry"

\* inj binds the name of every instance in v to its class
Covers(inj, v) == \A c \in Classes(v) : c \in DOMAIN inj /\ inj[c] = ClassOf(c)

\* the declared length of a frame of at least 5 bytes
Declared(f) == f[2] * 16777216 + f[3] * 65536 + f[4] * 256 + f[5]

RECURSIVE FrameSplit(_)
\* a payload cut into frames by their declared lengths
FrameSplit(p) ==
    IF p = <<>> THEN [ok |-> TRUE, fs |-> <<>>]
    ELSE IF Len(p) < 5 THEN [ok |-> FALSE, fs |-> <<>>]
    ELSE IF 5 + Declared(p) > Len(p) THEN [ok |-> FALSE, fs |-> <<>>]
    ELSE LET rest == FrameSplit(Drop(p, 5 + Declared(p)))
         IN  [ok |-> rest.ok, fs |-> <<Take(p, 5 + Declared(p))>> \o rest.fs]

\* the permutations of 1..n
Perms(n) == {p \in [1..n -> 1..n] : \A i, j \in 1..n : p[i] = p[j] => i = j}

RECURSIVE Reorderings(_, _)
\* the values that are v with the containers of kind k, at any depth, iterated
\* in another order
Reorderings(v, k) ==
    IF Len(v.xs) = 0 THEN {v}
    ELSE LET n == Len(v.xs)
             all == UNION {Reorderings(v.xs[i], k) : i \in 1..n}
             kids == {ys \in [1..n -> all] : \A i \in 1..n : ys[i] \in Reorderings(v.xs[i], k)}
         IN  IF v.k = k
             THEN {[v EXCEPT !.xs = [i \in 1..n |-> ys[p[i]]]] : ys \in kids, p \in Perms(n)}
             ELSE {[v EXCEPT !.xs = ys] : ys \in kids}

(***************************************************************************)
(* C1  Round trip.                                                         *)
(***************************************************************************)
\* the values C1 is about: None, bool, int in 0..2^32-1, str, bytes,
\* bytearray, Decimal, list, tuple, set, dict and Packable instances
Supported(v) ==
    /\ Kinds(v) \subseteq {"NoneType", "bool", "int", "str", "bytes", "bytearray",
                          "Decimal", "list", "tuple", "set", "dict", "object"}
    /\ \A i \in IntsIn(v) : i.n = 0 /\ Len(i.b) <= 4

\* C1: pack accepts every supported value, and unpack(pack(v), inject) is a
\* value equal to v and of v's kind at every level, when inject binds the
\* class name of every Packable in v
RoundTrip ==
    /\ Supported(value) => pc # "raised"
    /\ (pc = "unpacked" /\ how = "packed" /\ Supported(value) /\ Covers(inject, value))
        => (unpacked.ok /\ SameValue(unpacked.val, value))

\* a set of a Packable, nested in another container, came back
RoundTripWitness ==
    /\ pc = "unpacked" /\ how = "packed" /\ Supported(value) /\ Covers(inject, value)
    /\ unpacked.ok
    /\ Depth(value) >= 2
    /\ {"set", "object"} \subseteq Kinds(value)

(***************************************************************************)
(* C2  Integer range.                                                      *)
(***************************************************************************)
\* the number of a magnitude of at most 3 bytes
SmallMagnitude(mag) ==
    IF Len(mag) = 0 THEN 0
    ELSE IF Len(mag) = 1 THEN mag[1]
    ELSE IF Len(mag) = 2 THEN mag[1] * 256 + mag[2]
    ELSE mag[1] * 65536 + mag[2] * 256 + mag[3]

\* an int the fuzz test draws: random.randint(-1000000, 1000000)
FuzzInt(v) == v.k = "int" /\ Len(v.b) <= 3 /\ SmallMagnitude(v.b) <= 1000000

\* C2: for every int n in -1000000..1000000, pack(n) succeeds and
\* unpack(pack(n)) is n
IntegerRange ==
    FuzzInt(value) =>
        /\ pc # "raised"
        /\ (pc = "unpacked" /\ how = "packed") => (unpacked.ok /\ SameValue(unpacked.val, value))

(***************************************************************************)
(* C3  Mapping canonicity.                                                 *)
(***************************************************************************)
\* the pair frames of a 'd' frame are in ascending order
PairsAscending(frame) ==
    LET fs == FrameSplit(Drop(frame, 5)).fs
    IN  \A i \in 1..(Len(fs) - 1) : ~LexLess(fs[i + 1], fs[i])

\* C3: pack of a dict does not depend on the order the dict (or a dict inside
\* it) iterates in, for keys and values built from scalars, lists, tuples and
\* dicts: the payload is the pair frames in ascending byte order
MappingCanonical ==
    (pc \in {"packed", "raised"} /\ "set" \notin Kinds(value)) =>
        /\ \A w \in Reorderings(value, "dict") : SameResult(pack(w), packed)
        /\ (value.k = "dict" /\ packed.ok) =>
              (FrameSplit(Drop(packed.val, 5)).ok /\ PairsAscending(packed.val))

\* a dict of two items was packed whose items() order is not the sorted one
MappingCanonicalWitness ==
    /\ pc = "packed" /\ value.k = "dict" /\ Len(value.xs) >= 2
    /\ LexLess(pack(value.xs[2]).val, pack(value.xs[1]).val)
    /\ Cardinality(Reorderings(value, "dict")) >= 2

(***************************************************************************)
(* C4  Set canonicity.                                                     *)
(***************************************************************************)
\* C4: pack of a set does not depend on the order the set (or a set inside
\* the value) iterates in
SetCanonical ==
    pc \in {"packed", "raised"} =>
        \A w \in Reorderings(value, "set") : SameResult(pack(w), packed)

(***************************************************************************)
(* C5  Framing exactness.                                                  *)
(***************************************************************************)
\* the tag table: the code of each kind
KindCode(v) ==
    CASE v.k = "object" -> TagP
      [] v.k = "list" -> TagL
      [] v.k = "set" -> TagE
      [] v.k = "tuple" -> TagT
      [] v.k = "dict" -> TagD
      [] v.k = "bytes" -> TagB
      [] v.k = "bytearray" -> TagA
      [] v.k = "str" -> TagS
      [] v.k = "int" -> TagI
      [] v.k = "bool" -> TagBool
      [] v.k = "float" -> TagF
      [] v.k = "Decimal" -> TagDec
      [] v.k = "NoneType" -> TagN
      [] OTHER -> -1

RECURSIVE WellFramed(_, _)
\* f is one frame for v: v's code, a 4-byte big-endian length L, then exactly L
\* bytes; and the payload of a container is one such frame for each element
\* (for each item, as a tuple, in a dict)
WellFramed(v, f) ==
    /\ Len(f) >= 5
    /\ f[1] = KindCode(v)
    /\ f[1] \in KnownTags
    /\ Len(f) = 5 + Declared(f)
    /\ v.k \in {"list", "tuple", "set", "dict"} =>
          LET split == FrameSplit(Drop(f, 5))
          IN  /\ split.ok
              /\ Len(split.fs) = Len(v.xs)
              /\ IF v.k = "dict"
                 THEN \A i \in 1..Len(v.xs) : \E j \in 1..Len(split.fs) :
                          WellFramed(v.xs[i], split.fs[j])
                 ELSE \A i \in 1..Len(v.xs) : WellFramed(v.xs[i], split.fs[i])

\* C5: what pack returns is exactly one frame, at every level, and pack(None)
\* is 'n' with length 0
FramingExact ==
    (pc = "packed" /\ how = "packed") =>
        /\ WellFramed(value, buf)
        /\ value = NoneV => buf = <<TagN, 0, 0, 0, 0>>

\* a container of containers was packed, with a payload of more than 255 bytes
\* or of more than one element frame
FramingExactWitness ==
    /\ pc = "packed" /\ how = "packed"
    /\ Depth(value) >= 2
    /\ Len(buf) > 5
    /\ \E i \in 1..Len(value.xs) : Len(value.xs[i].xs) >= 2

(***************************************************************************)
(* C10  Rejection.                                                         *)
(***************************************************************************)
\* C10: pack of a value that is, or holds at any depth, a value of an
\* unsupported kind raises UsageError naming that kind, and returns no bytes
Rejection ==
    (pc # "start" /\ "function" \in Kinds(value)) =>
        (pc = "raised" /\ ~packed.ok /\ packed.err = "UsageError" /\ packed.msg = "function")

(***************************************************************************)
(* C6  Back-to-back frames.                                                *)
(***************************************************************************)
\* C6: unpack of pack(a) + pack(b) is a, whatever a's kind: the bytes after the
\* first frame neither change nor break its decoding
BackToBack ==
    (pc = "unpacked" /\ how = "concat" /\ Covers(inject, value)) =>
        (unpacked.ok /\ SameValue(unpacked.val, value))

(***************************************************************************)
(* C7  Unknown tag.                                                        *)
(***************************************************************************)
\* C7: unpack of an input whose first byte is none of the 13 codes fails; it
\* returns no value
UnknownTag ==
    (pc = "unpacked" /\ buf # <<>> /\ buf[1] \notin KnownTags) => ~unpacked.ok

(***************************************************************************)
(* C8  Truncation.                                                         *)
(***************************************************************************)
\* the input is shorter than 5 bytes, or declares more bytes than remain
CutShort(b) == Len(b) < 5 \/ Declared(b) > Len(b) - 5

\* C8, for inputs that open with one of the 13 codes (another first byte is
\* C7's case): unpack fails on every input that is cut short; so on every
\* proper prefix of a pack(v), and on a dict frame whose payload or declared
\* length is cut by one byte
Truncation ==
    /\ (pc = "unpacked" /\ (buf = <<>> \/ buf[1] \in KnownTags) /\ CutShort(buf))
          => ~unpacked.ok
    /\ (pc = "unpacked" /\ how = "prefix") => ~unpacked.ok
    /\ (pc = "unpacked" /\ value.k = "dict" /\ how = "shorter") => ~unpacked.ok

(***************************************************************************)
(* C9  Extension closure.                                                  *)
(***************************************************************************)
RECURSIVE HexPrefix(_)
\* the hex digits a payload opens with
HexPrefix(p) ==
    IF p # <<>> /\ HexVal(p[1]) >= 0 THEN <<p[1]>> \o HexPrefix(Tail(p)) ELSE <<>>

\* a whole 'p' frame (and maybe more) whose payload is the hex digits of an
\* ASCII name, '_', bytes
IsExtensionFrame(b) ==
    /\ Len(b) >= 5 /\ b[1] = TagP /\ ~CutShort(b)
    /\ LET payload == SubSeq(b, 6, 5 + Declared(b))
           hex == HexPrefix(payload)
       IN  /\ Len(hex) % 2 = 0
           /\ Len(hex) < Len(payload)
           /\ payload[Len(hex) + 1] = Underscore
           /\ \A i \in 1..(Len(hex) \div 2) : HexVal(hex[2 * i - 1]) < 8

\* the class name such a frame carries (ASCII)
FrameClass(b) == HexBytes(HexPrefix(SubSeq(b, 6, 5 + Declared(b))))

UsageErrorRaised == ~unpacked.ok /\ unpacked.err = "UsageError"

\* C9 as stated: unpack of a 'p' frame whose class name is not a key of inject
\* raises UsageError, and so does a name bound to an object without unpack;
\* there is no other kind of failure
ExtensionClosureInjectOnly ==
    (pc = "unpacked" /\ IsExtensionFrame(buf)) =>
        /\ FrameClass(buf) \notin DOMAIN inject => UsageErrorRaised
        /\ (FrameClass(buf) \in DOMAIN inject /\ ~HasUnpack(inject[FrameClass(buf)]))
              => UsageErrorRaised

\* inj binds v's class to the class, and the classes inside v to nothing else
Resolves(inj, v) ==
    /\ v.cls \in DOMAIN inj
    /\ \A c \in Classes(v) : c \in DOMAIN inj => inj[c] = ClassOf(c)

\* C9 as amended: unpack of a 'p' frame whose class name is a key neither of
\* inject nor of the module's globals raises UsageError, and so does a name
\* that resolves, in inject first and the module's globals second, to an
\* object without unpack; with the name bound to its class in inject, what
\* pack returned for an instance decodes to an equal instance
ExtensionClosure ==
    /\ (pc = "unpacked" /\ IsExtensionFrame(buf)) =>
        LET name == FrameClass(buf)
            dependencies == inject @@ ModuleGlobals
        IN  /\ name \notin DOMAIN dependencies => UsageErrorRaised
            /\ (name \in DOMAIN dependencies /\ dependencies[name] = "plain")
                  => UsageErrorRaised
    /\ (pc = "unpacked" /\ how = "packed" /\ value.k = "object" /\ Resolves(inject, value))
          => (unpacked.ok /\ SameValue(unpacked.val, value))

\* a frame of an instance was unpacked with an inject that lacks its class,
\* and UsageError came of it
ExtensionClosureWitness ==
    /\ pc = "unpacked" /\ how = "packed" /\ value.k = "object"
    /\ IsExtensionFrame(buf)
    /\ FrameClass(buf) = value.cls
    /\ value.cls \notin DOMAIN inject
    /\ UsageErrorRaised

(***************************************************************************)
(* C11  Registry propagation.                                              *)
(***************************************************************************)
RECURSIVE PackablesIn(_)
\* the Packable instances in v, at any depth, those inside other instances
\* included
PackablesIn(v) ==
    (IF v.k = "object" THEN {v} ELSE {}) \cup UNION {PackablesIn(v.xs[i]) : i \in 1..Len(v.xs)}

RECURSIVE PackablesInContainers(_)
\* the Packable instances that are elements of v's containers, at any depth
PackablesInContainers(v) ==
    IF v.k = "object" THEN {v}
    ELSE UNION {PackablesInContainers(v.xs[i]) : i \in 1..Len(v.xs)}

\* the instances that are a key or a value of another instance
InsidePackables(v) ==
    UNION {UNION {PackablesIn(x.xs[i]) : i \in 1..Len(x.xs)} : x \in PackablesIn(v)}

\* unpack of x's own frame, as the whole input of a call with inj
AtTopLevel(x, inj) == unpack(pack(x).val, inj)

RECURSIVE Standalone(_, _)
\* v put together from what each non-container in it unpacks to when its
\* frame is the whole input of a call with inj
Standalone(v, inj) ==
    IF v.k \in {"list", "tuple", "set", "dict"} THEN
        LET rs == [i \in 1..Len(v.xs) |-> Standalone(v.xs[i], inj)]
        IN  IF ~AllOk(rs) THEN FirstFailure(rs)
            ELSE MakeContainer(IF v.k = "dict" THEN TagD ELSE ContainerCode(v.k), Vals(rs))
    ELSE AtTopLevel(v, inj)

\* the same outcome: values equal at every level, or the same exception
Agree(r, q) ==
    /\ r.ok = q.ok
    /\ IF r.ok THEN SameValue(r.val, q.val) ELSE r.err = q.err /\ r.msg = q.msg

\* C11 as stated: every Packable in the value, in a container, as a dict key
\* or value, or inside another Packable, resolves in the nested call exactly
\* as its frame does at the top level with the same inject, so the whole
\* decodes exactly when each of them decodes alone
PropagationAtEveryDepth ==
    (pc = "unpacked" /\ how = "packed") =>
        /\ Agree(unpacked, Standalone(value, inject))
        /\ unpacked.ok <=> \A x \in PackablesIn(value) : AtTopLevel(x, inject).ok

\* C11, amended: unpack hands its inject to the unpack of every element frame
\* and to the unpack method of the resolved class.  What unpack returns for a
\* container is what its elements' frames give at the top level with the
\* same inject, the same exception included; a class name inside another
\* Packable that inject binds resolves to inject's binding there as at the
\* top level, and one inject does not bind is resolved by the enclosing
\* class's own lookup
RegistryPropagation ==
    (pc = "unpacked" /\ how = "packed") =>
        /\ Agree(unpacked, Standalone(value, inject))
        /\ (\A x \in InsidePackables(value) : x.cls \in DOMAIN inject)
            => (unpacked.ok <=> \A x \in PackablesIn(value) : AtTopLevel(x, inject).ok)
        /\ unpacked.ok => \A x \in PackablesInContainers(value) : AtTopLevel(x, inject).ok

\* a map entry of two wrappers, two containers deep inside a dict, came back
\* with the inject of the call
RegistryPropagationWitness ==
    /\ pc = "unpacked" /\ how = "packed"
    /\ value.k = "dict" /\ Depth(value) >= 2
    /\ \E x \in PackablesInContainers(value) : x.cls = PackableMapEntryName
    /\ InsidePackables(value) # {}
    /\ inject = FullInject
    /\ unpacked.ok /\ SameValue(unpacked.val, value)

(***************************************************************************)
(* C12  Termination.                                                       *)
(***************************************************************************)
\* the stepwise calls compute what pack and unpack compute
RunAgrees ==
    /\ pc = "raised" => packed = pack(value)
    /\ (pc \in {"packed", "unpacking", "unpacked"} /\ how # "raw") => packed = pack(value)
    /\ pc = "unpacked" => unpacked = unpack(buf, inject)

\* a step in which unpack calls itself: the callee's input is the item split
\* off, 5 + item_len >= 5 bytes that leave the caller's remaining payload, and
\* it is strictly shorter than the caller's own input
RecursiveCall ==
    LET n == Len(ustack)
    IN  (n >= 1 /\ Len(ustack') = n + 1) =>
            /\ Len(ustack'[n + 1].data) >= 5
            /\ Len(ustack[n].let_data) - Len(ustack'[n].let_data) = Len(ustack'[n + 1].data)
            /\ Len(ustack'[n + 1].data) < Len(ustack[n].data)

\* a step in which pack calls itself: the callee's argument is an element of
\* the caller's
ElementCall ==
    LET n == Len(pstack)
    IN  (n >= 1 /\ Len(pstack') = n + 1) =>
            \E i \in 1..Len(pstack[n].data.xs) : pstack'[n + 1].data = pstack[n].data.xs[i]

\* while a call is in progress one of its steps can be taken: the innermost
\* call of pack has an element left to pack or returns, the innermost call of
\* unpack is at its entry or in its loop
StepAtHand ==
    /\ pc = "packing" =>
        /\ pstack # <<>>
        /\ LET top == pstack[Len(pstack)]
           IN  IsContainer(top.data) => Len(top.frames) <= Len(top.data.xs)
    /\ pc = "unpacking" =>
        /\ ustack # <<>>
        /\ ustack[Len(ustack)].at \in {"entry", "loop"}
    /\ pc \notin {"packing", "unpacking"} => (pstack = <<>> /\ ustack = <<>>)

\* C12: every call of unpack, on bytes pack returned, on such bytes cut,
\* extended or altered or on other bytes, returns or raises, each pass of its
\* loop taking 5 + item_len >= 5 bytes off the remaining payload and each
\* recursive call getting an input strictly shorter than its caller's; every
\* call of pack returns or raises
Termination ==
    /\ []StepAtHand
    /\ [][RecursiveCall /\ ElementCall]_vars
    /\ (pc = "unpacking") ~> (pc = "unpacked")
    /\ (pc = "packing") ~> (pc \in {"packed", "raised"})

\* unpack is three calls deep in bytes that pack did not return as they are
TerminationWitness ==
    /\ pc = "unpacking"
    /\ Len(ustack) >= 3
    /\ how \in {"raw", "prefix", "shorter", "longer", "concat"}

(***************************************************************************)
(* C13  No shared state.                                                   *)
(***************************************************************************)
\* no step changes inject, the module's globals or a caller's argument
SharedUntouched ==
    /\ inject' = inject
    /\ module_globals' = module_globals
    /\ \A t \in DOMAIN calls :
        /\ calls'[t].data = calls[t].data
        /\ calls[t].pc # "start" => calls'[t].buf = calls[t].buf

\* a caller that is done has what its call returns or raises when it runs
\* alone, start to end, on the same bytes with the same inject
AsAlone ==
    \A t \in DOMAIN calls :
        calls[t].pc = "done" =>
            /\ calls[t].buf = pack(calls[t].data).val
            /\ calls[t].result = unpack(calls[t].buf, inject)

\* C13: unpack changes neither the inject it is given nor the module's
\* globals, and pack leaves its argument as it is; however the statements of
\* the callers' calls interleave, each caller gets what its call gives alone
NoSharedState ==
    /\ [][SharedUntouched]_vars
    /\ []AsAlone

\* every caller is done, their statements having interleaved: one got its
\* dict back and one its list, instances included
NoSharedStateWitness ==
    /\ \A t \in DOMAIN calls : calls[t].pc = "done"
    /\ Cardinality(DOMAIN calls) >= 2
    /\ \E t \in DOMAIN calls : calls[t].result.ok /\ calls[t].data.k = "dict"
    /\ \E t \in DOMAIN calls : calls[t].result.ok /\ calls[t].data.k = "list"

====
